---- MODULE Spec2Model ----
(***************************************************************************)
(* The emotion transform of next-swc: the package root resolver            *)
(* (find_root over GLOBAL_PARENT_CACHE), the import registry               *)
(* (generate_import_info) and the stable class name generator              *)
(* (fold_call_expr).                                                       *)
(*                                                                         *)
(* Text is a sequence of one-character strings, a path is the sequence of  *)
(* its components below "/", so that Path::parent, PathBuf equality        *)
(* (component-wise) and str::trim_start_matches (character-wise) are each  *)
(* computed as the code computes them.                                     *)
(***************************************************************************)
EXTENDS Integers, Sequences, FiniteSets, TLC

\* ---------------------------------------------------------------- bounds
\* Number of filesystem changes (manifest created, removed, rewritten) a run may hold.
MaxFsChanges == 1
\* Number of call expressions one pass folds.
MaxCalls == 3
\* Largest hash value and largest counter value the class name format is applied to
\* on its own.
MaxHash == 11
MaxSeq == 10

\* Option<T>
NoneV == [some |-> FALSE]
Some(v) == [some |-> TRUE, val |-> v]

\* ------------------------------------------------------------------ text
IsPrefix(pat, s) == Len(pat) <= Len(s) /\ SubSeq(s, 1, Len(pat)) = pat

Drop(s, n) == SubSeq(s, n + 1, Len(s))

RECURSIVE TrimAll(_, _)
\* Removes every leading repetition of pat.
TrimAll(s, pat) ==
    IF pat # <<>> /\ IsPrefix(pat, s) THEN TrimAll(Drop(s, Len(pat)), pat) ELSE s

\* Removes one leading pat, when there is one.
TrimOnce(s, pat) == IF IsPrefix(pat, s) THEN Drop(s, Len(pat)) ELSE s

\* str::trim_start_matches(pat): "all prefixes that match a pattern
\* repeatedly removed".
trim_start_matches(s, pat) == TrimAll(s, pat)

Digit(d) == <<"0", "1", "2", "3", "4", "5", "6", "7", "8", "9">>[d + 1]

RECURSIVE Decimal(_)
\* Display of an unsigned integer ({} in format!): decimal, no padding.
Decimal(n) == IF n < 10 THEN <<Digit(n)>> ELSE Decimal(n \div 10) \o <<Digit(n % 10)>>

\* The UTF-8 byte of each character the model's texts are made of.
Byte(c) == [ch \in {"/", "a", "x", "p", "q", "r", "o", "t", "s", "?"} |->
               CASE ch = "/" -> 47 [] ch = "a" -> 97 [] ch = "x" -> 120 [] ch = "p" -> 112
                 [] ch = "q" -> 113 [] ch = "r" -> 114 [] ch = "o" -> 111 [] ch = "t" -> 116
                 [] ch = "s" -> 115 [] OTHER -> 63][c]

\* The range of the hash. hash.rs returns a u32; the model keeps the hash in
\* a narrower unsigned range that the model checker's integers hold.
HashModulus == 65536

RECURSIVE HashFrom(_, _)
HashFrom(h, key) ==
    IF key = <<>> THEN h
    ELSE HashFrom((h * 31 + Byte(Head(key))) % HashModulus, Tail(key))

\* hash::murmurhash2(key: &[u8]) -> u32: a fixed-seed, non-cryptographic
\* hash of the bytes; a function of the bytes alone.
murmurhash2(key) == HashFrom(Len(key), key)

\* ----------------------------------------------------------------- paths
Root == <<>>

\* The component standing for a name that is not valid UTF-8.
NonText == "?"

\* Path::parent(): None for "/".
Parent(p) == IF p = <<>> THEN NoneV ELSE Some(SubSeq(p, 1, Len(p) - 1))

RECURSIVE PathText(_)
PathText(p) == IF p = <<>> THEN <<>> ELSE <<"/", Head(p)>> \o PathText(Tail(p))

\* Path::to_str(): None when the path is not valid UTF-8.
to_str(p) ==
    IF \E i \in 1..Len(p) : p[i] = NonText THEN NoneV
    ELSE IF p = <<>> THEN Some(<<"/">>) ELSE Some(PathText(p))

\* -------------------------------------------------------------- registry
\* EmotionModuleConfig
ModuleConfig(name, exported, default) ==
    [module_name |-> name, exported_names |-> exported,
     include_sub_path |-> NoneV, has_default_export |-> default]

EMOTION_OFFICIAL_LIBRARIES ==
    << ModuleConfig("@emotion/styled", <<"styled">>, Some(TRUE)),
       ModuleConfig("@emotion/react", <<"css">>, NoneV) >>

\* Option::unwrap_or
unwrap_or(o, d) == IF o.some THEN o.val ELSE d

\* The local binding names of the import declarations the model folds.
LocalNames == {"styled", "css", "styleIt", "emotionCss", "whateverStyled"}

Absent == "Absent"

\* FxHashMap<String, PackageMeta>: each local name's PackageMeta._type, or Absent.
EmptyRegistry == [n \in LocalNames |-> Absent]

is_empty(reg) == \A n \in LocalNames : reg[n] = Absent

RegistryInsert(reg, name, type) == [reg EXCEPT ![name] = type]

\* ImportSpecifier: Named { local, imported }, Default { local }, Namespace { local }
NamedSpecifier(local) == [kind |-> "Named", local |-> local, imported |-> NoneV]
NamedAsSpecifier(imported, local) ==
    [kind |-> "Named", local |-> local, imported |-> Some(imported)]
DefaultSpecifier(local) == [kind |-> "Default", local |-> local, imported |-> NoneV]
NamespaceSpecifier(local) == [kind |-> "Namespace", local |-> local, imported |-> NoneV]

\* The name the module exports under: the imported name of `{ X as L }`, the
\* local name of `{ L }`.
ExportedName(s) == IF s.imported.some THEN s.imported.val ELSE s.local

InSeq(x, seq) == \E i \in 1..Len(seq) : seq[i] = x

\* A faulty variant of RegisterSpecifier: has_default_export is not looked at.
RegisterSpecifierAnyDefault(reg, c, s) ==
    CASE s.kind = "Named" ->
            IF InSeq(s.local, c.exported_names)
            THEN RegistryInsert(reg, s.local, "Named") ELSE reg
      [] s.kind = "Default" -> RegistryInsert(reg, s.local, "Default")
      [] s.kind = "Namespace" -> RegistryInsert(reg, s.local, "Namespace")

\* One arm of the match on a specifier, for configuration c.
RegisterSpecifier(reg, c, s) ==
    CASE s.kind = "Named" ->
            IF InSeq(s.local, c.exported_names)
            THEN RegistryInsert(reg, s.local, "Named") ELSE reg
      [] s.kind = "Default" ->
            IF unwrap_or(c.has_default_export, FALSE)
            THEN RegistryInsert(reg, s.local, "Default") ELSE reg
      [] s.kind = "Namespace" -> RegistryInsert(reg, s.local, "Namespace")

RECURSIVE RegisterSpecifiers(_, _, _)
RegisterSpecifiers(reg, c, specifiers) ==
    IF specifiers = <<>> THEN reg
    ELSE RegisterSpecifiers(RegisterSpecifier(reg, c, Head(specifiers)), c,
                            Tail(specifiers))

RECURSIVE RegisterConfigs(_, _, _)
RegisterConfigs(reg, configs, decl) ==
    IF configs = <<>> THEN reg
    ELSE RegisterConfigs(
            IF decl.src = Head(configs).module_name
            THEN RegisterSpecifiers(reg, Head(configs), decl.specifiers) ELSE reg,
            Tail(configs), decl)

\* EmotionTransformer::generate_import_info: the built-in configurations, then
\* the custom ones.
generate_import_info(reg, custom, decl) ==
    RegisterConfigs(reg, EMOTION_OFFICIAL_LIBRARIES \o custom, decl)

\* A faulty variant of fold_import_decl: type_only is not looked at.
fold_import_decl_any(reg, custom, decl) == generate_import_info(reg, custom, decl)

\* EmotionTransformer::fold_import_decl on the registry.
fold_import_decl(reg, custom, decl) ==
    IF decl.type_only THEN reg ELSE generate_import_info(reg, custom, decl)

\* ------------------------------------------------------ class name, calls
\* RootPathInfo::new
RootPathInfo(package_name, root_path) ==
    [package_name |-> package_name, root_path |-> root_path]

\* A faulty variant of FinalPath: a root path equal to the file's path is trimmed like
\* any other.
FinalPathTrimmed(root_info, filename, src) ==
    IF to_str(root_info.root_path).some /\ to_str(filename).some
    THEN trim_start_matches(to_str(filename).val, to_str(root_info.root_path).val)
    ELSE src

\* final_path of fold_call_expr: the fragment of the file's path that is hashed.
\* src is the file's source text.
FinalPath(root_info, filename, src) ==
    IF root_info.root_path = filename THEN <<"r", "o", "o", "t">>
    ELSE IF to_str(root_info.root_path).some /\ to_str(filename).some
         THEN trim_start_matches(to_str(filename).val, to_str(root_info.root_path).val)
         ELSE src

\* A faulty variant of StableClassName: the two arguments of format! in the other order.
StableClassNameSwapped(package_name, final_path, n) ==
    <<"e">> \o Decimal(n) \o Decimal(murmurhash2(package_name \o final_path))

\* format!("e{}{}", hash, count): the letter, the hash and the counter in
\* decimal, nothing between them.
ClassName(hash, n) == <<"e">> \o Decimal(hash) \o Decimal(n)

\* format!("e{}{}", murmurhash2(format!("{}{}", package_name, final_path)), count)
StableClassName(package_name, final_path, n) ==
    ClassName(murmurhash2(package_name \o final_path), n)

\* An argument of a call: an object literal with its properties, or another
\* expression.
ObjectArg(props) == [object |-> TRUE, props |-> props]
OtherArg == [object |-> FALSE, props |-> <<>>]

\* KeyValueProp { key: target, value: Lit::Str(stable_class_name) }
TargetAssignment(stable_class_name) == [key |-> "target", value |-> stable_class_name]

\* Callee: Callee::Expr of an identifier, a call or a member access, and the
\* callees that are no expression (super, import).
IdentCallee(sym) == [kind |-> "Ident", sym |-> sym]
CallCallee == [kind |-> "Call", sym |-> "styled"]
MemberCallee == [kind |-> "Member", sym |-> "styled"]
SuperCallee == [kind |-> "Super", sym |-> ""]

CallExpr(callee, args) == [callee |-> callee, args |-> args]

\* A faulty variant of PushTarget: a call with one argument gets nothing.
PushTargetTwoOnly(expr, target_assignment) ==
    CASE Len(expr.args) = 2 ->
            IF expr.args[2].object
            THEN [expr EXCEPT !.args[2].props = Append(@, target_assignment)]
            ELSE expr
      [] OTHER -> expr

\* The match on expr.args.len() that splices the target property in.
PushTarget(expr, target_assignment) ==
    CASE Len(expr.args) = 1 ->
            [expr EXCEPT !.args = Append(@, ObjectArg(<<target_assignment>>))]
      [] Len(expr.args) = 2 ->
            IF expr.args[2].object
            THEN [expr EXCEPT !.args[2].props = Append(@, target_assignment)]
            ELSE expr
      [] OTHER -> expr

\* The conditions of fold_call_expr under which a class name is generated:
\* registry not empty, an identifier callee the registry holds, an argument,
\* a real file name.
Applies(reg, file, expr) ==
    /\ ~is_empty(reg)
    /\ expr.callee.kind = "Ident"
    /\ expr.callee.sym \in LocalNames
    /\ reg[expr.callee.sym] # Absent
    /\ expr.args # <<>>
    /\ file.real

\* ----------------------------------------------------------------- state
\* The passes (one EmotionTransformer each) the host runs concurrently.
Procs == {1, 2}

\* The directories of the model's filesystem: "/", "/a", "/a/a".
Dirs == {Root, <<"a">>, <<"a", "a">>}

\* Package names a manifest may declare.
Names == {"p", "q"}

\* What a directory holds: it does not exist, it has no package.json, its
\* package.json cannot be parsed, or its package.json declares that name.
FsStates == {"absent", "empty", "bad"} \cup Names

\* SourceFile: FileName::Real(path) or another kind of name (Anon, Custom).
RealFile(path) == [real |-> TRUE, path |-> path]
AnonFile == [real |-> FALSE, path |-> <<>>]

\* SourceFile::src
SourceText == <<"s">>

VARIABLES
    fs,                 \* the filesystem: what each directory holds
    fsVer,              \* history: how many times the filesystem changed
    cache,              \* GLOBAL_PARENT_CACHE.cache: Option<RootPathInfo> per directory
    readers,            \* the passes holding the RwLock's read lock
    writer,             \* the pass holding the RwLock's write lock, or 0
    custom_modules,     \* EmotionOptions.custom_modules
    source_file,        \* per pass: EmotionTransformer.source_file
    import_packages,    \* per pass: EmotionTransformer.import_packages
    emotion_target_class_name_count,    \* per pass
    pc,                 \* per pass: where it is in fold_call_expr / find_root
    dir,                \* per pass: `parent` of the find_root frame it is in
    expr,               \* per pass: the call expression being folded
    reads,              \* history, per pass: manifests opened by the call being folded
    ver0,               \* history, per pass: fsVer when the call being folded began
    lastDecl,           \* history, per pass: the import declaration folded last
    lastCall,           \* history, per pass: the call folded last, and what it returned
    prevq,              \* history, per pass: the find_root call before the last one
    lastq,              \* history, per pass: the last find_root call that returned
    carried,            \* history, per pass: calls returned with an added target property
    seqs,               \* history, per pass: the sequence numbers of the class names generated
    imported            \* history, per pass: a non-type-only import of a configured module was folded

vars == <<fs, fsVer, cache, readers, writer, custom_modules, source_file,
          import_packages, emotion_target_class_name_count, pc, dir, expr,
          reads, ver0, lastDecl, lastCall, prevq, lastq, carried, seqs, imported>>

sharedVars == <<fs, fsVer, cache, readers, writer>>
configVars == <<custom_modules, source_file>>

\* A call expression no pass is folding.
NoExpr == CallExpr(SuperCallee, <<>>)

NoCall == [expr |-> NoExpr, out |-> NoExpr, generated |-> FALSE,
           root_info |-> RootPathInfo(<<>>, <<>>), final_path |-> <<>>,
           hash |-> 0, seq |-> 0, name |-> <<>>]

\* ------------------------------------------------------ the filesystem
\* A directory exists only inside an existing directory; "/" exists.
WellFormedFs(f) ==
    /\ f[Root] # "absent"
    /\ \A d \in Dirs \ {Root} : f[Parent(d).val] = "absent" => f[d] = "absent"

\* Path::exists() of a directory
exists(f, d) == d \in Dirs /\ f[d] # "absent"

\* Path::exists() of d.join("package.json")
manifest_exists(f, d) == d \in Dirs /\ f[d] \in {"bad"} \cup Names

\* A manifest is created, removed or rewritten by another program.
FsChange(d, v) ==
    /\ fsVer < MaxFsChanges
    /\ fs[d] # "absent"
    /\ v # fs[d]
    /\ fs' = [fs EXCEPT ![d] = v]
    /\ fsVer' = fsVer + 1
    /\ UNCHANGED <<cache, readers, writer, custom_modules, source_file,
                   import_packages, emotion_target_class_name_count, pc, dir,
                   expr, reads, ver0, lastDecl, lastCall, prevq, lastq, carried,
                   seqs, imported>>

\* ------------------------------------------------------------ the passes
\* A module name some configuration, built-in or custom, carries.
Configured(custom, src) ==
    \E i \in 1..Len(EMOTION_OFFICIAL_LIBRARIES \o custom) :
        (EMOTION_OFFICIAL_LIBRARIES \o custom)[i].module_name = src

\* fold_import_decl
FoldImportDecl(p, decl) ==
    /\ pc[p] = "idle"
    /\ import_packages' =
          [import_packages EXCEPT ![p] = fold_import_decl(@, custom_modules, decl)]
    /\ lastDecl' = [lastDecl EXCEPT ![p] = Some(decl)]
    /\ imported' = [imported EXCEPT ![p] =
          @ \/ (~decl.type_only /\ Configured(custom_modules, decl.src))]
    /\ UNCHANGED <<sharedVars, configVars, emotion_target_class_name_count, pc, dir,
                   expr, reads, ver0, lastCall, prevq, lastq, carried, seqs>>

\* fold_call_expr on a call no class name is generated for: returned as it is.
FoldCallExprUnchanged(p, e) ==
    /\ pc[p] = "idle"
    /\ ~Applies(import_packages[p], source_file[p], e)
    /\ lastCall' = [lastCall EXCEPT ![p] = [NoCall EXCEPT !.expr = e, !.out = e]]
    /\ UNCHANGED <<sharedVars, configVars, import_packages,
                   emotion_target_class_name_count, pc, dir, expr, reads, ver0,
                   lastDecl, prevq, lastq, carried, seqs, imported>>

\* A faulty variant of NextCount: the counter is left as it is.
NextCountStuck(n) == n

\* self.emotion_target_class_name_count += 1
NextCount(n) == n + 1

\* A faulty variant of RootInfoOrFallback: the fallback root path is the file's
\* directory.
RootInfoOrFallbackParent(res, filename) ==
    IF res.some THEN res.val ELSE RootPathInfo(<<>>, Parent(filename).val)

\* find_root(filename).unwrap_or_else(|| RootPathInfo::new("", filename))
RootInfoOrFallback(res, filename) ==
    IF res.some THEN res.val ELSE RootPathInfo(<<>>, filename)

\* The rest of fold_call_expr once find_root(filename) has returned res: the
\* class name, the counter, the target property. Each local of the code is
\* bound to its value once, in the code's order.
Generate(p, res, nreads) ==
    \E filename \in {source_file[p].path}, n \in {emotion_target_class_name_count[p]} :
    \E root_info \in {RootInfoOrFallback(res, filename)} :
    \E final_path \in {FinalPath(root_info, filename, SourceText)} :
    \E hash \in {murmurhash2(root_info.package_name \o final_path)} :
    \E stable_class_name \in {StableClassName(root_info.package_name, final_path, n)} :
    \E out \in {PushTarget(expr[p], TargetAssignment(stable_class_name))} :
        /\ emotion_target_class_name_count' =
              [emotion_target_class_name_count EXCEPT ![p] = NextCount(n)]
        /\ seqs' = [seqs EXCEPT ![p] = Append(@, n)]
        /\ lastCall' = [lastCall EXCEPT ![p] =
              [expr |-> expr[p], out |-> out, generated |-> TRUE,
               root_info |-> root_info, final_path |-> final_path,
               hash |-> hash, seq |-> n, name |-> stable_class_name]]
        /\ carried' = [carried EXCEPT ![p] = IF out # expr[p] THEN @ + 1 ELSE @]
        /\ prevq' = [prevq EXCEPT ![p] = lastq[p]]
        /\ lastq' = [lastq EXCEPT ![p] =
              Some([res |-> res, reads |-> nreads, ver0 |-> ver0[p], ver1 |-> fsVer])]
        /\ pc' = [pc EXCEPT ![p] = "idle"]
        /\ expr' = [expr EXCEPT ![p] = NoExpr]
        /\ reads' = [reads EXCEPT ![p] = 0]
        /\ ver0' = [ver0 EXCEPT ![p] = 0]

\* fold_call_expr on a call a class name is generated for, up to its call of
\* find_root(filename), and find_root up to its look into the cache.
FoldCallExprFindRoot(p, e) ==
    /\ pc[p] = "idle"
    /\ Applies(import_packages[p], source_file[p], e)
    /\ emotion_target_class_name_count[p] < MaxCalls
    /\ Parent(source_file[p].path).some
    /\ pc' = [pc EXCEPT ![p] = "get"]
    /\ dir' = [dir EXCEPT ![p] = Parent(source_file[p].path).val]
    /\ expr' = [expr EXCEPT ![p] = e]
    /\ reads' = [reads EXCEPT ![p] = 0]
    /\ ver0' = [ver0 EXCEPT ![p] = fsVer]
    /\ lastCall' = [lastCall EXCEPT ![p] = NoCall]
    /\ UNCHANGED <<sharedVars, configVars, import_packages,
                   emotion_target_class_name_count, lastDecl, prevq, lastq,
                   carried, seqs, imported>>

\* GlobalParentCache::get: self.cache.read()
CacheGetLock(p) ==
    /\ pc[p] = "get"
    /\ writer = 0
    /\ readers' = readers \cup {p}
    /\ pc' = [pc EXCEPT ![p] = "get_read"]
    /\ UNCHANGED <<fs, fsVer, cache, writer, configVars, import_packages,
                   emotion_target_class_name_count, dir, expr, reads, ver0,
                   lastDecl, lastCall, prevq, lastq, carried, seqs, imported>>

\* A faulty variant of CacheGetHit: a hit gives the root path back without the
\* package name.
CacheGetHitUnnamed(p) ==
    /\ pc[p] = "get_read"
    /\ cache[dir[p]].some
    /\ readers' = readers \ {p}
    /\ Generate(p, Some(RootPathInfo(<<>>, cache[dir[p]].val.root_path)), reads[p])
    /\ dir' = [dir EXCEPT ![p] = Root]
    /\ UNCHANGED <<fs, fsVer, cache, writer, configVars, import_packages, lastDecl, imported>>

\* GlobalParentCache::get: guard.get(p).cloned(), the guard dropped; a hit is
\* what find_root returns.
CacheGetHit(p) ==
    /\ pc[p] = "get_read"
    /\ cache[dir[p]].some
    /\ readers' = readers \ {p}
    /\ Generate(p, cache[dir[p]], reads[p])
    /\ dir' = [dir EXCEPT ![p] = Root]
    /\ UNCHANGED <<fs, fsVer, cache, writer, configVars, import_packages, lastDecl, imported>>

CacheGetMiss(p) ==
    /\ pc[p] = "get_read"
    /\ ~cache[dir[p]].some
    /\ readers' = readers \ {p}
    /\ pc' = [pc EXCEPT ![p] = "exists"]
    /\ UNCHANGED <<fs, fsVer, cache, writer, configVars, import_packages,
                   emotion_target_class_name_count, dir, expr, reads, ver0,
                   lastDecl, lastCall, prevq, lastq, carried, seqs, imported>>

\* find_root: parent.exists() fails, or no package.json and no directory
\* above: None.
FindRootNone(p) ==
    /\ pc[p] = "exists"
    /\ \/ ~exists(fs, dir[p])
       \/ exists(fs, dir[p]) /\ ~manifest_exists(fs, dir[p]) /\ ~Parent(dir[p]).some
    /\ Generate(p, NoneV, reads[p])
    /\ dir' = [dir EXCEPT ![p] = Root]
    /\ UNCHANGED <<sharedVars, configVars, import_packages, lastDecl, imported>>

\* A faulty variant of FindRootRecurse: the walk stops at the first directory without a
\* package.json.
FindRootRecurseStop(p) ==
    /\ pc[p] = "exists"
    /\ exists(fs, dir[p]) /\ ~manifest_exists(fs, dir[p]) /\ Parent(dir[p]).some
    /\ Generate(p, NoneV, reads[p])
    /\ dir' = [dir EXCEPT ![p] = Root]
    /\ UNCHANGED <<sharedVars, configVars, import_packages, lastDecl, imported>>

\* find_root: no package.json in parent: find_root(&parent).
FindRootRecurse(p) ==
    /\ pc[p] = "exists"
    /\ exists(fs, dir[p]) /\ ~manifest_exists(fs, dir[p]) /\ Parent(dir[p]).some
    /\ dir' = [dir EXCEPT ![p] = Parent(dir[p]).val]
    /\ pc' = [pc EXCEPT ![p] = "get"]
    /\ UNCHANGED <<sharedVars, configVars, import_packages,
                   emotion_target_class_name_count, expr, reads, ver0, lastDecl,
                   lastCall, prevq, lastq, carried, seqs, imported>>

\* find_root: parent.join("package.json").exists(): on to insert.
FindRootFound(p) ==
    /\ pc[p] = "exists"
    /\ exists(fs, dir[p]) /\ manifest_exists(fs, dir[p])
    /\ pc' = [pc EXCEPT ![p] = "insert"]
    /\ UNCHANGED <<sharedVars, configVars, import_packages,
                   emotion_target_class_name_count, dir, expr, reads, ver0,
                   lastDecl, lastCall, prevq, lastq, carried, seqs, imported>>

\* GlobalParentCache::insert: self.cache.borrow_mut()
CacheInsertLock(p) ==
    /\ pc[p] = "insert"
    /\ writer = 0 /\ readers = {}
    /\ writer' = p
    /\ pc' = [pc EXCEPT ![p] = "open"]
    /\ UNCHANGED <<fs, fsVer, cache, readers, configVars, import_packages,
                   emotion_target_class_name_count, dir, expr, reads, ver0,
                   lastDecl, lastCall, prevq, lastq, carried, seqs, imported>>

\* A faulty variant of MapInsert: the entry goes under the key "/".
MapInsertUnderRoot(map, key, info) == [map EXCEPT ![Root] = Some(info)]

\* HashMap::insert(p, info): the value of an occupied key is replaced.
MapInsert(map, key, info) == [map EXCEPT ![key] = Some(info)]

\* GlobalParentCache::insert: the manifest opened and parsed, the entry
\* written, the guard dropped; info is what find_root returns.
CacheInsert(p) ==
    /\ pc[p] = "open"
    /\ fs[dir[p]] \in Names
    /\ LET info == RootPathInfo(<<fs[dir[p]]>>, dir[p])
       IN  /\ cache' = MapInsert(cache, dir[p], info)
           /\ Generate(p, Some(info), reads[p] + 1)
    /\ writer' = 0
    /\ dir' = [dir EXCEPT ![p] = Root]
    /\ UNCHANGED <<fs, fsVer, readers, configVars, import_packages, lastDecl, imported>>

\* GlobalParentCache::insert: File::open(..).unwrap() or from_reader(..).unwrap()
\* panics; unwinding drops the guard and ends the pass.
CacheInsertPanic(p) ==
    /\ pc[p] = "open"
    /\ fs[dir[p]] \notin Names
    /\ writer' = 0
    /\ pc' = [pc EXCEPT ![p] = "panicked"]
    /\ UNCHANGED <<fs, fsVer, cache, readers, configVars, import_packages,
                   emotion_target_class_name_count, dir, expr, reads, ver0,
                   lastDecl, lastCall, prevq, lastq, carried, seqs, imported>>

\* The format! of fold_call_expr alone, by pass p, on hash value h and counter
\* value n.
FormatClassName(p, h, n) ==
    /\ pc[p] = "idle"
    /\ lastCall' = [lastCall EXCEPT ![p] =
          [NoCall EXCEPT !.generated = TRUE, !.hash = h, !.seq = n,
                         !.name = ClassName(h, n)]]
    /\ UNCHANGED <<sharedVars, configVars, import_packages,
                   emotion_target_class_name_count, pc, dir, expr, reads, ver0,
                   lastDecl, prevq, lastq, carried, seqs, imported>>

\* ---------------------------------------------------------------- inputs
ImportDecl(src, type_only, specifiers) ==
    [src |-> src, type_only |-> type_only, specifiers |-> specifiers]

\* import { css } from '@emotion/react'
ImportCss == ImportDecl("@emotion/react", FALSE, <<NamedSpecifier("css")>>)

\* import styled from '@emotion/styled'
ImportStyled == ImportDecl("@emotion/styled", FALSE, <<DefaultSpecifier("styled")>>)

\* The import declarations a pass may meet.
Decls ==
    { ImportDecl("@emotion/styled", FALSE, <<DefaultSpecifier("styled")>>),
      ImportDecl("@emotion/styled", FALSE, <<NamedAsSpecifier("default", "whateverStyled")>>),
      ImportDecl("@emotion/styled", FALSE, <<NamespaceSpecifier("styled")>>),
      ImportDecl("@emotion/styled", FALSE, <<NamedSpecifier("css")>>),
      ImportDecl("@emotion/styled", TRUE, <<NamespaceSpecifier("styled")>>),
      ImportCss,
      ImportDecl("@emotion/react", FALSE, <<DefaultSpecifier("emotionCss")>>),
      ImportDecl("@emotion/react", FALSE, <<NamespaceSpecifier("emotionCss")>>),
      ImportDecl("@emotion/react", FALSE, <<NamedAsSpecifier("css", "styleIt")>>),
      ImportDecl("@emotion/react", FALSE, <<NamedAsSpecifier("other", "css")>>),
      ImportDecl("@emotion/react", FALSE,
                 <<DefaultSpecifier("emotionCss"), NamedSpecifier("css")>>),
      ImportDecl("@emotion/react", TRUE, <<NamedSpecifier("css")>>),
      ImportDecl("my-lib", FALSE, <<NamedSpecifier("css")>>),
      ImportDecl("my-lib", FALSE, <<DefaultSpecifier("styled")>>) }

\* css(x)
CallCss == CallExpr(IdentCallee("css"), <<OtherArg>>)

\* The call expressions a pass may meet: css with no argument, with one, with
\* an object or another expression second, with three; other callees.
Calls ==
    { CallExpr(IdentCallee("css"), args) :
        args \in { <<>>, <<OtherArg>>, <<OtherArg, ObjectArg(<<>>)>>,
                   <<OtherArg, OtherArg>>, <<OtherArg, OtherArg, OtherArg>> } }
    \cup { CallExpr(c, <<OtherArg>>) :
             c \in { IdentCallee("styled"), IdentCallee("styleIt"), IdentCallee("foo"),
                     CallCallee, MemberCallee, SuperCallee } }

\* EmotionOptions.custom_modules: none, or one configuration under a built-in's
\* module name and one under a name of its own.
CustomChoices ==
    { <<>>,
      << ModuleConfig("@emotion/styled", <<"css">>, Some(FALSE)),
         ModuleConfig("my-lib", <<"css">>, Some(TRUE)) >> }

\* The files passes run on: /x, /a/x, /a/a/x, a file whose name is not valid
\* UTF-8, a file with no real name.
Files ==
    { RealFile(<<"x">>), RealFile(<<"a", "x">>), RealFile(<<"a", "a", "x">>),
      RealFile(<<"a", NonText>>), AnonFile }

\* The filesystems a run may start from.
FsChoices ==
    { f \in [Dirs -> FsStates] :
        /\ WellFormedFs(f)
        /\ f[Root] \in {"empty", "q"}
        /\ f[<<"a">>] \in {"absent", "empty", "bad", "p"}
        /\ f[<<"a", "a">>] \in {"absent", "empty", "p"} }

\* ------------------------------------------------------- specifications
\* The state after GlobalParentCache::new and EmotionTransformer::new.
InitCommon ==
    /\ fsVer = 0
    /\ cache = [d \in Dirs |-> NoneV]
    /\ readers = {}
    /\ writer = 0
    /\ import_packages = [p \in Procs |-> EmptyRegistry]
    /\ emotion_target_class_name_count = [p \in Procs |-> 0]
    /\ pc = [p \in Procs |-> "idle"]
    /\ dir = [p \in Procs |-> Root]
    /\ expr = [p \in Procs |-> NoExpr]
    /\ reads = [p \in Procs |-> 0]
    /\ ver0 = [p \in Procs |-> 0]
    /\ lastDecl = [p \in Procs |-> NoneV]
    /\ lastCall = [p \in Procs |-> NoCall]
    /\ prevq = [p \in Procs |-> NoneV]
    /\ lastq = [p \in Procs |-> NoneV]
    /\ carried = [p \in Procs |-> 0]
    /\ seqs = [p \in Procs |-> <<>>]
    /\ imported = [p \in Procs |-> FALSE]

\* The steps of find_root and of the cache, for pass p.
Resolve(p) ==
    \/ CacheGetLock(p)
    \/ CacheGetHit(p)
    \/ CacheGetMiss(p)
    \/ FindRootNone(p)
    \/ FindRootRecurse(p)
    \/ FindRootFound(p)
    \/ CacheInsertLock(p)
    \/ CacheInsert(p)
    \/ CacheInsertPanic(p)

\* Concurrent passes over files below /a, each importing css and calling it,
\* while a manifest may be removed or rewritten.
Init ==
    /\ InitCommon
    /\ fs \in FsChoices
    /\ custom_modules = <<>>
    /\ source_file \in
          {f \in [Procs -> {RealFile(<<"a", "x">>), RealFile(<<"a", "a", "x">>)}] :
              Len(f[1].path) >= Len(f[2].path)}

Next ==
    \/ \E d \in Dirs, v \in {"empty", "q"} : FsChange(d, v)
    \/ \E p \in Procs : FoldImportDecl(p, ImportCss)
    \/ \E p \in Procs : FoldCallExprUnchanged(p, CallCss)
    \/ \E p \in Procs : FoldCallExprFindRoot(p, CallCss)
    \/ \E p \in Procs : Resolve(p)

Spec == Init /\ [][Next]_vars

\* One pass over one file, meeting any of the import declarations, and calls of
\* the names they bind.
InitImports ==
    /\ InitCommon
    /\ fs \in {f \in FsChoices : f[Root] = "empty" /\ f[<<"a", "a">>] = "empty"}
    /\ custom_modules \in CustomChoices
    /\ source_file =
          [p \in Procs |-> IF p = 1 THEN RealFile(<<"a", "a", "x">>) ELSE AnonFile]

NameCalls == { CallExpr(IdentCallee(n), <<OtherArg>>) : n \in LocalNames }

NextImports ==
    \/ \E decl \in Decls : FoldImportDecl(1, decl)
    \/ \E e \in NameCalls : FoldCallExprUnchanged(1, e)
    \/ \E e \in NameCalls : FoldCallExprFindRoot(1, e)
    \/ Resolve(1)

SpecImports == InitImports /\ [][NextImports]_vars

\* One pass over any of the files, importing css and styled, meeting any of the
\* calls, on a filesystem that does not change.
InitCalls ==
    /\ InitCommon
    /\ fs \in FsChoices
    /\ custom_modules = <<>>
    /\ source_file \in {[p \in Procs |-> IF p = 1 THEN f ELSE AnonFile] : f \in Files}

NextCalls ==
    \/ FoldImportDecl(1, ImportCss)
    \/ FoldImportDecl(1, ImportStyled)
    \/ \E e \in Calls : FoldCallExprUnchanged(1, e)
    \/ \E e \in Calls : FoldCallExprFindRoot(1, e)
    \/ Resolve(1)

SpecCalls == InitCalls /\ [][NextCalls]_vars

\* The concurrent passes under a fair scheduler, on a filesystem that does not
\* change: a pass that can go on with find_root does go on. A pass waiting for
\* the lock can go on once the other pass, whose calls are finitely many, has
\* let it go.
NextFair ==
    \/ \E p \in Procs : FoldImportDecl(p, ImportCss)
    \/ \E p \in Procs : FoldCallExprUnchanged(p, CallCss)
    \/ \E p \in Procs : FoldCallExprFindRoot(p, CallCss)
    \/ \E p \in Procs : Resolve(p)

Fairness == \A p \in Procs : WF_vars(Resolve(p))

SpecFair == Init /\ [][NextFair]_vars /\ Fairness

\* The class name format on its own: each pass formats any hash value with any
\* counter value.
InitFormat ==
    /\ InitCommon
    /\ fs = [d \in Dirs |-> "empty"]
    /\ custom_modules = <<>>
    /\ source_file = [p \in Procs |-> RealFile(<<"x">>)]

NextFormat == \E p \in Procs, h \in 0..MaxHash, n \in 0..MaxSeq : FormatClassName(p, h, n)

SpecFormat == InitFormat /\ [][NextFormat]_vars

\* ---------------------------------------------------------------- claims
\* The package name and root path the caller falls back to when find_root
\* returns None.
Fallback(p) == RootPathInfo(<<>>, source_file[p].path)

\* Pass p is inside GlobalParentCache::insert, before a manifest that is
\* missing or cannot be parsed.
AtBrokenManifest(p) == pc[p] = "open" /\ fs[dir[p]] \notin Names

\* C1: when the manifest of an ancestor directory cannot be opened or parsed,
\* or is gone by the time it is read, the resolution ends as unresolved: the
\* pass does not abort, the cache stays as it was, and the call is folded with
\* the caller's fallback identity (empty name, the file's own path).
C1_ManifestErrorRecovered ==
    [][\A p \in Procs :
          (AtBrokenManifest(p) /\ pc'[p] # pc[p]) =>
              /\ pc'[p] = "idle"
              /\ cache' = cache
              /\ lastCall'[p].generated
              /\ lastCall'[p].root_info = Fallback(p)]_vars

\* C3: once the cache maps a directory to a RootPathInfo, the entry is never
\* removed and never replaced by a different value.
C3_FirstWriterWins ==
    [][\A d \in Dirs : cache[d].some => cache'[d] = cache[d]]_vars

\* The filesystem did not change from the start of the find_root call before
\* the last one to the return of the last one.
NoChangeAcrossQueries(p) ==
    /\ prevq[p].some
    /\ lastq[p].some
    /\ prevq[p].val.ver0 = lastq[p].val.ver1

\* C4: two find_root calls for the same directory with no filesystem change
\* between them return the same result and open the manifest at most once in
\* total.
C4_RepeatedQueryStable ==
    \A p \in Procs :
        NoChangeAcrossQueries(p) =>
            /\ prevq[p].val.res = lastq[p].val.res
            /\ prevq[p].val.reads + lastq[p].val.reads <= 1

RECURSIVE NearestManifest(_, _)
\* The nearest directory, from d upwards, that holds a package.json; nothing
\* when d does not exist or no directory up to "/" holds one.
NearestManifest(f, d) ==
    IF ~exists(f, d) THEN NoneV
    ELSE IF manifest_exists(f, d) THEN Some(d)
    ELSE IF Parent(d).some THEN NearestManifest(f, Parent(d).val)
    ELSE NoneV

\* What resolve is to return for a file on filesystem f.
Owner(f, path) ==
    LET n == NearestManifest(f, Parent(path).val)
    IN  IF n.some THEN Some(RootPathInfo(<<f[n.val]>>, n.val)) ELSE NoneV

\* C5: on a filesystem that never changes, every find_root call that returns,
\* whatever the cache holds by then, returns the name and path of the nearest
\* directory above the file that holds a manifest, and nothing when there is
\* none or the file's directory does not exist.
C5_NearestManifest ==
    \A p \in Procs :
        (fsVer = 0 /\ lastq[p].some) =>
            lastq[p].val.res = Owner(fs, source_file[p].path)

\* C5 witness: with the filesystem unchanged, a call has returned the manifest
\* of a directory above the file's own from the cache another call filled.
C5_Witness ==
    \E p \in Procs :
        /\ fsVer = 0
        /\ lastq[p].some
        /\ lastq[p].val.res.some
        /\ lastq[p].val.reads = 0
        /\ ~prevq[p].some
        /\ lastq[p].val.res.val.root_path # Parent(source_file[p].path).val

\* A non-trivial step of fold_import_decl by pass p.
DeclFolded(p) == lastDecl'[p] # lastDecl[p]

\* The configurations decl's module name matches, built-in or custom.
Matching(decl) ==
    LET all == EMOTION_OFFICIAL_LIBRARIES \o custom_modules
    IN  {all[i] : i \in {j \in 1..Len(all) : all[j].module_name = decl.src}}

\* C2: a non-type-only import of a recognized module registers the named
\* specifier `{ X as L }` under L exactly when X, the name before aliasing, is
\* among the configuration's exported_names; `import { css as styleIt } from
\* '@emotion/react'` makes a later call styleIt(arg) a recognized one.
C2_NamedByExportedName ==
    [][\A p \in Procs :
          DeclFolded(p) =>
              LET decl == lastDecl'[p].val
              IN  (~decl.type_only /\ Len(decl.specifiers) = 1
                     /\ decl.specifiers[1].kind = "Named" /\ Matching(decl) # {}) =>
                      LET s == decl.specifiers[1]
                          admitted ==
                              \E c \in Matching(decl) :
                                  InSeq(ExportedName(s), c.exported_names)
                      IN  /\ admitted => import_packages'[p][s.local] = "Named"
                          /\ (~admitted /\ import_packages[p][s.local] = Absent) =>
                                 import_packages'[p][s.local] = Absent]_vars

\* C6: within a pass the counter starts at 0 and goes up by one with every
\* class name generated, never back: the class names generated carry the
\* sequence numbers 0, 1, 2, ... in this order, none twice.
C6_CounterMonotonic ==
    \A p \in Procs :
        /\ emotion_target_class_name_count[p] = Len(seqs[p])
        /\ \A i \in 1..Len(seqs[p]) : seqs[p][i] = i - 1
        /\ \A i, j \in 1..Len(seqs[p]) : i < j => seqs[p][i] < seqs[p][j]

\* C6 witness: a pass has generated three class names.
C6_Witness == \E p \in Procs : Len(seqs[p]) = 3 /\ lastCall[p].generated

\* The call folded last by pass p came back with a target property added.
Carries(p) == lastCall[p].generated /\ lastCall[p].out # lastCall[p].expr

\* The value of the property added last to the last argument of a call.
TargetOf(call) ==
    LET arg == call.args[Len(call.args)]
    IN  arg.props[Len(arg.props)].value

\* The name of the package that owns pass p's file on the filesystem; empty
\* when no package does.
OwnerName(p) ==
    LET o == Owner(fs, source_file[p].path)
    IN  IF o.some THEN o.val.package_name ELSE <<>>

\* "e" ++ decimal(hash(P ++ F)) ++ decimal(k), P the owning package and F the
\* path fragment of pass p's file.
ExpectedTarget(p, k) ==
    <<"e">> \o Decimal(murmurhash2(OwnerName(p) \o lastCall[p].final_path))
            \o Decimal(k)

\* C7, as claimed: the i-th call of a file that ends up carrying an added
\* target property carries "e" ++ decimal(hash(P ++ F)) ++ decimal(i - 1).
C7_IthCarryingCall ==
    \A p \in Procs :
        Carries(p) => TargetOf(lastCall[p].out) = ExpectedTarget(p, carried[p] - 1)

\* C7, amended: the i-th call of a file for which a class name is generated
\* (identifier callee in the registry, an argument, a real file name), whether
\* or not the property ends up in its arguments, is the one whose name ends in
\* decimal(i - 1); a call that carries the property carries that name.
C7_IthGeneratedCall ==
    \A p \in Procs :
        Carries(p) => TargetOf(lastCall[p].out) = ExpectedTarget(p, Len(seqs[p]) - 1)

\* C7 witness: a call carries the target property after an earlier call of the
\* file took a sequence number and carried nothing.
C7_Witness == \E p \in Procs : Carries(p) /\ carried[p] < Len(seqs[p])

\* C8: a type-only import declaration adds no binding, whatever its module and
\* specifiers; while every import of a configured module was type-only, the
\* registry is empty, every call is returned as it came and the counter is 0.
C8_TypeOnlyIgnored ==
    /\ [](\A p \in Procs :
            ~imported[p] =>
                /\ is_empty(import_packages[p])
                /\ emotion_target_class_name_count[p] = 0
                /\ pc[p] = "idle"
                /\ ~lastCall[p].generated
                /\ lastCall[p].out = lastCall[p].expr)
    /\ [][\A p \in Procs :
            (DeclFolded(p) /\ lastDecl'[p].val.type_only) =>
                import_packages'[p] = import_packages[p]]_vars

\* C8 witness: the import folded last is `import type { css } from
\* '@emotion/react'`, no other import of a configured module was folded, and
\* css(x) came back unchanged.
C8_Witness ==
    \E p \in Procs :
        /\ lastDecl[p] = Some(ImportDecl("@emotion/react", TRUE, <<NamedSpecifier("css")>>))
        /\ ~imported[p]
        /\ lastCall[p].expr = CallCss
        /\ lastCall[p].out = CallCss

\* A class name was generated for the call folded last by p, from a root path
\* other than the file's path, both paths valid text.
TrimmedCase(p) ==
    /\ lastCall[p].generated
    /\ lastCall[p].root_info.root_path # source_file[p].path
    /\ to_str(lastCall[p].root_info.root_path).some
    /\ to_str(source_file[p].path).some

\* C9: when the root path differs from the file's path and both are text, the
\* fragment is the file's path with the root path removed once from its start.
C9_PrefixRemovedOnce ==
    \A p \in Procs :
        TrimmedCase(p) =>
            lastCall[p].final_path =
                TrimOnce(to_str(source_file[p].path).val,
                         to_str(lastCall[p].root_info.root_path).val)

\* C10: when the root path equals the file's own path, the fragment that is
\* hashed is "root", never the empty text.
C10_RootFragment ==
    \A p \in Procs :
        (lastCall[p].generated /\ lastCall[p].root_info.root_path = source_file[p].path) =>
            /\ lastCall[p].final_path = <<"r", "o", "o", "t">>
            /\ lastCall[p].final_path # <<>>
            /\ lastCall[p].name =
                  <<"e">> \o Decimal(murmurhash2(lastCall[p].root_info.package_name
                                                  \o <<"r", "o", "o", "t">>))
                          \o Decimal(lastCall[p].seq)

\* C10 witness: a class name was generated with the file's own path as root.
C10_Witness ==
    \E p \in Procs :
        /\ lastCall[p].generated
        /\ lastCall[p].root_info.root_path = source_file[p].path

\* The custom configurations that carry decl's module name, in declaration order.
CustomMatching(decl) ==
    SelectSeq(custom_modules, LAMBDA c : c.module_name = decl.src)

\* decl's module name is carried by a built-in configuration and by a custom one.
Overridden(decl) ==
    /\ InSeq(decl.src, [i \in 1..Len(EMOTION_OFFICIAL_LIBRARIES) |->
                           EMOTION_OFFICIAL_LIBRARIES[i].module_name])
    /\ CustomMatching(decl) # <<>>

\* Configuration c's rules let specifier s in: a named export among its
\* exported_names, the default export when it declares one, a namespace always.
Admits(c, s) ==
    CASE s.kind = "Named" -> InSeq(ExportedName(s), c.exported_names)
      [] s.kind = "Default" -> unwrap_or(c.has_default_export, FALSE)
      [] s.kind = "Namespace" -> TRUE

\* C11: when a custom configuration carries the module name of a built-in one,
\* an import of that module registers a binding exactly when the custom
\* configuration, declared later, admits the specifier; what only the built-in
\* configuration admits is not registered.
C11_LaterConfigurationRules ==
    [][\A p \in Procs :
          DeclFolded(p) =>
              LET decl == lastDecl'[p].val
              IN  (~decl.type_only /\ Len(decl.specifiers) = 1 /\ Overridden(decl)
                     /\ import_packages[p][decl.specifiers[1].local] = Absent) =>
                      LET s == decl.specifiers[1]
                          c == CustomMatching(decl)[Len(CustomMatching(decl))]
                      IN  (import_packages'[p][s.local] # Absent) <=> Admits(c, s)]_vars

\* The class name of the call folded last by pass p as the filesystem and the
\* file alone determine it: the owning package's name, the fragment of the
\* file's path below the owning directory, the number of class names the pass
\* generated before.
NameByFilesystem(p) ==
    LET path == source_file[p].path
        o == Owner(fs, path)
        info == IF o.some THEN o.val ELSE Fallback(p)
    IN  <<"e">> \o Decimal(murmurhash2(info.package_name
                                        \o FinalPath(info, path, SourceText)))
                \o Decimal(Len(seqs[p]) - 1)

\* C12: on a filesystem that does not change, the class name of the k-th call
\* of a file a name is generated for is settled by the filesystem, the file's
\* path and k: it is the same whether the cache was empty or filled, whatever
\* other files were resolved before and however other passes interleave.
C12_NameIndependentOfCache ==
    \A p \in Procs :
        (fsVer = 0 /\ lastCall[p].generated) =>
            /\ lastCall[p].name = NameByFilesystem(p)
            /\ Carries(p) => TargetOf(lastCall[p].out) = NameByFilesystem(p)

\* C12 witness: two passes over the same file each generated their first class
\* name, one after reading the manifest itself, the other from the cache the
\* first had filled, and the names are the same.
C12_Witness ==
    \E p, q \in Procs :
        /\ p # q
        /\ fsVer = 0
        /\ source_file[p] = source_file[q]
        /\ Carries(p) /\ Carries(q)
        /\ Len(seqs[p]) = 1 /\ Len(seqs[q]) = 1
        /\ lastq[p].val.reads = 1 /\ lastq[p].val.res.some
        /\ lastq[q].val.reads = 0 /\ lastq[q].val.res.some
        /\ lastCall[p].name = lastCall[q].name

\* C13: two generated class names are the same text only when their hash
\* values are equal and their sequence numbers are equal.
C13_ClassNameInjective ==
    \A p, q \in Procs :
        (lastCall[p].generated /\ lastCall[q].generated
           /\ lastCall[p].name = lastCall[q].name) =>
            /\ lastCall[p].hash = lastCall[q].hash
            /\ lastCall[p].seq = lastCall[q].seq

\* Pass p is inside a call of find_root.
Resolving(p) == pc[p] \in {"get", "get_read", "exists", "insert", "open"}

\* The write guard is held by at most one pass, and by none while a read guard
\* is held.
MutualExclusion ==
    /\ writer # 0 => readers = {}
    /\ \A p, q \in Procs : (pc[p] = "open" /\ pc[q] = "open") => p = q
    /\ \A p \in Procs : pc[p] = "open" <=> writer = p
    /\ \A p \in Procs : pc[p] = "get_read" <=> p \in readers

\* No pass asks for the write guard while it holds a read guard.
NoUpgrade == \A p \in Procs : pc[p] = "insert" => p \notin readers

\* Every call of find_root ends: it returns or it panics.
ResolveEnds == \A p \in Procs : Resolving(p) ~> (pc[p] \in {"idle", "panicked"})

\* C14: under any interleaving of concurrent find_root calls an insert excludes
\* every other insert and every read, no pass asks for the write guard while
\* holding the read guard, and under fair scheduling every find_root call
\* returns to fold_call_expr.
C14_ExclusiveAndReturns ==
    /\ []MutualExclusion
    /\ []NoUpgrade
    /\ \A p \in Procs : Resolving(p) ~> (pc[p] = "idle")

\* C15: in a non-type-only import of a module some configuration carries, a
\* default specifier is registered only if a configuration of that module
\* declares a default export, and a namespace specifier is registered always;
\* an import of a module no configuration carries registers nothing.
C15_DefaultAndNamespace ==
    [][\A p \in Procs :
          DeclFolded(p) =>
              LET decl == lastDecl'[p].val
              IN  ~decl.type_only =>
                    /\ Matching(decl) = {} => import_packages'[p] = import_packages[p]
                    /\ \A i \in 1..Len(decl.specifiers) :
                          LET s == decl.specifiers[i]
                          IN  /\ (s.kind = "Default" /\ import_packages[p][s.local] = Absent
                                    /\ import_packages'[p][s.local] # Absent) =>
                                     \E c \in Matching(decl) :
                                         c.has_default_export = Some(TRUE)
                              /\ (s.kind = "Namespace" /\ Matching(decl) # {}) =>
                                     import_packages'[p][s.local] = "Namespace"]_vars

\* C15 witness: `import emotionCss from '@emotion/react'`, a module without a
\* default export, was folded last and left emotionCss unbound, after
\* `import * as styled from '@emotion/styled'` had bound styled.
C15_Witness ==
    /\ lastDecl[1] =
          Some(ImportDecl("@emotion/react", FALSE, <<DefaultSpecifier("emotionCss")>>))
    /\ import_packages[1]["emotionCss"] = Absent
    /\ import_packages[1]["styled"] = "Namespace"

\* The import statements the comment above generate_import_info lists as
\* supported.
SupportedImports ==
    { ImportDecl("@emotion/styled", FALSE, <<DefaultSpecifier("styled")>>),
      ImportDecl("@emotion/styled", FALSE, <<NamedAsSpecifier("default", "whateverStyled")>>),
      ImportDecl("@emotion/styled", FALSE, <<NamespaceSpecifier("styled")>>),
      ImportDecl("@emotion/react", FALSE, <<NamedSpecifier("css")>>),
      ImportDecl("@emotion/react", FALSE, <<DefaultSpecifier("emotionCss")>>),
      ImportDecl("@emotion/react", FALSE, <<NamespaceSpecifier("emotionCss")>>) }

\* C16: with the built-in configurations alone, folding any of the import
\* statements listed as supported binds its local name in the registry.
C16_SupportedImportsRegister ==
    [][\A p \in Procs :
          (DeclFolded(p) /\ custom_modules = <<>> /\ lastDecl'[p].val \in SupportedImports) =>
              import_packages'[p][lastDecl'[p].val.specifiers[1].local] # Absent]_vars

\* C17: a binding appears in a pass's registry only by the fold of a
\* non-type-only import of a module some configuration carries, through a
\* specifier with that local name whose export the configuration recognizes (a
\* named export among exported_names by its name before aliasing, the default
\* export where declared, a namespace); `{ other as css }` creates no binding.
C17_RegistryOnlyKnownExports ==
    [][\A p \in Procs : \A n \in LocalNames :
          (import_packages[p][n] = Absent /\ import_packages'[p][n] # Absent) =>
              /\ DeclFolded(p)
              /\ LET decl == lastDecl'[p].val
                 IN  /\ ~decl.type_only
                     /\ \E i \in 1..Len(decl.specifiers) : \E c \in Matching(decl) :
                            /\ decl.specifiers[i].local = n
                            /\ Admits(c, decl.specifiers[i])]_vars

\* Call e, met by pass p, has a plain identifier bound in the registry as
\* callee and at least one argument, and the file has a real path.
Labelable(p, e) ==
    /\ e.callee.kind = "Ident"
    /\ \E n \in LocalNames : n = e.callee.sym /\ import_packages[p][n] # Absent
    /\ Len(e.args) >= 1
    /\ source_file[p].real

\* fold_call_expr of pass p returns in this step.
CallFolded(p) == lastCall'[p] # lastCall[p] /\ lastCall'[p] # NoCall

\* C18: a call is returned as it came, and neither the counter nor the cache
\* changes, unless its callee is a plain identifier bound in the registry, it
\* has an argument and the file has a real path; calls with a call or a member
\* access as callee are returned as they came. Where the conditions hold, a call
\* with one argument is returned with a second argument, an object holding the
\* target property alone, and a call with two arguments, the second an object
\* literal, is returned with the target property added at the end of that object.
C18_CallFrameAndEffect ==
    [][/\ \A p \in Procs :
            CallFolded(p) =>
                LET e == lastCall'[p].expr
                    out == lastCall'[p].out
                    target == [key |-> "target", value |-> lastCall'[p].name]
                IN  /\ ~Labelable(p, e) =>
                          /\ out = e
                          /\ emotion_target_class_name_count'[p] =
                                 emotion_target_class_name_count[p]
                          /\ cache' = cache
                    /\ e.callee.kind \in {"Call", "Member"} => out = e
                    /\ out.callee = e.callee
                    /\ (Labelable(p, e) /\ Len(e.args) = 1) =>
                          out.args = <<e.args[1], [object |-> TRUE, props |-> <<target>>]>>
                    /\ (Labelable(p, e) /\ Len(e.args) = 2 /\ e.args[2].object) =>
                          out.args = <<e.args[1],
                                       [object |-> TRUE,
                                        props |-> Append(e.args[2].props, target)]>>
       /\ \A p \in Procs :
            emotion_target_class_name_count'[p] # emotion_target_class_name_count[p] =>
                Labelable(p, expr[p])
       /\ cache' # cache => \E p \in Procs : pc[p] # "idle" /\ Labelable(p, expr[p])]_vars

\* C18 witness: with styled bound in the registry and one class name generated
\* before, styled.div(x) came back as it was and the counter stayed at 1.
C18_Witness ==
    /\ import_packages[1]["styled"] # Absent
    /\ lastCall[1].expr = CallExpr(MemberCallee, <<OtherArg>>)
    /\ lastCall[1].out = lastCall[1].expr
    /\ emotion_target_class_name_count[1] = 1
    /\ carried[1] = 1

\* Directory d lies strictly above path.
StrictAncestor(d, path) == Len(d) < Len(path) /\ SubSeq(path, 1, Len(d)) = d

\* C19: when find_root returns nothing for a file, the package name is empty
\* and the fragment is "root", so the k-th class name generated in the file is
\* "e" ++ decimal(hash("root")) ++ decimal(k - 1) whatever the file's path;
\* and the root path equals the file's path, which selects the fragment
\* "root", only when find_root returned nothing: a root path it returns is a
\* directory strictly above the file.
C19_UnresolvedIsRoot ==
    \A p \in Procs :
        lastCall[p].generated =>
            /\ ~lastq[p].val.res.some =>
                  /\ lastCall[p].root_info.package_name = <<>>
                  /\ lastCall[p].final_path = <<"r", "o", "o", "t">>
                  /\ lastCall[p].name =
                        <<"e">> \o Decimal(murmurhash2(<<"r", "o", "o", "t">>))
                                \o Decimal(Len(seqs[p]) - 1)
            /\ lastCall[p].root_info.root_path = source_file[p].path =>
                  ~lastq[p].val.res.some
            /\ lastq[p].val.res.some =>
                  /\ lastCall[p].root_info = lastq[p].val.res.val
                  /\ StrictAncestor(lastCall[p].root_info.root_path, source_file[p].path)

\* C19 witness: find_root returned nothing for /a/a/x and the second class name
\* of the file was generated from the fragment "root".
C19_Witness ==
    /\ source_file[1] = RealFile(<<"a", "a", "x">>)
    /\ lastCall[1].generated
    /\ ~lastq[1].val.res.some
    /\ lastCall[1].seq = 1
    /\ lastCall[1].final_path = <<"r", "o", "o", "t">>

\* C20: every cache entry sits under the key that is its value's root_path;
\* an entry is written only for a directory that holds a readable manifest at
\* that moment, with the name the manifest declares; a directory without a
\* manifest that a walk went through is never made a key.
C20_CacheKeysAreRoots ==
    /\ [](\A d \in Dirs :
            cache[d].some =>
                /\ cache[d].val.root_path = d
                /\ fsVer = 0 => manifest_exists(fs, d))
    /\ [][\A d \in Dirs :
            cache'[d] # cache[d] =>
                /\ fs[d] \in Names
                /\ cache'[d] = Some(RootPathInfo(<<fs[d]>>, d))]_vars

\* C20 witness: on the unchanged filesystem a pass over /a/a/x went through
\* /a/a, which holds no manifest, and found /a: /a is a key, /a/a is none.
C20_Witness ==
    \E p \in Procs :
        /\ fsVer = 0
        /\ source_file[p] = RealFile(<<"a", "a", "x">>)
        /\ lastq[p].some
        /\ lastq[p].val.res.some
        /\ lastq[p].val.reads = 1
        /\ cache[<<"a">>].some
        /\ ~cache[<<"a", "a">>].some
        /\ ~cache[Root].some

====
